---- MODULE Spec2Model ----
(***************************************************************************)
(* Model of the two trend pipelines of LHCb_Trends:                        *)
(*   "occ"  src/plot_occupancies.py         (single-metric pipeline)       *)
(*   "eff"  src/plot_pseudo_efficiencies.py (multi-sensor variant)         *)
(* Both are straight-line scripts: one thread walks the run range, and the *)
(* variable pc is the position of that thread.  The run database, the      *)
(* saveset store, the archives' contents and the DQDB publish call are the *)
(* environment; each is read where the code reads it and its answer is     *)
(* drawn from a small set.                                                 *)
(*                                                                         *)
(* Numbers: the code computes in floats.  Values are modelled as exact     *)
(* rationals <<n, d>> (d > 0, lowest terms); an uncertainty is modelled by *)
(* its square, which is rational for every formula of the code (the code's *)
(* sqrt is then never needed, and all uncertainties here are >= 0).        *)
(***************************************************************************)
EXTENDS Integers, Sequences, FiniteSets, TLC

\* ---------------------------------------------------------------- bounds
\* run numbers offered on the command line are 1..MaxRun
MaxRun == 2
\* a histogram bin holds 0 or MaxBin; so does an entry count
MaxBin == 1
\* number of modules looped over per sensor (the code loops over 52)
TOTAL_MODULES == 2
\* the run numbers given to the saveset path are k*1000 and k*1000 + 999
\* for k in 0..MaxThousand, and the run 265911
MaxThousand == 12
\* the series handed to the axis-range policy have 1..MaxSeries points
MaxSeries == 6

\* ------------------------------------------------------ program constants
\* min_run_length, in seconds
min_run_length == 300
\* seconds per hour, the divisor of runs_info["length"]
SecondsPerHour == 3600
\* require_offline
require_offline == FALSE
\* publish_to_dqdb
publish_to_dqdb == TRUE
\* the sensors looped over (the code has twelve names; two are modelled)
VELO_SENSOR_NAMES == <<"VP00", "VP01">>

Runs == 1..MaxRun
\* len(sys.argv): 3 is one positional argument short, 4 is complete
ArgCounts == {3, 4}
\* bins of the modelled histograms on each axis (axis range contains 0)
XBins == {1, 2}
YBins == {1, 2}

\* ------------------------------------------------------- exact arithmetic
RECURSIVE GCD(_, _)
GCD(a, b) == IF b = 0 THEN a ELSE GCD(b, a % b)

Abs(a) == IF a < 0 THEN -a ELSE a

\* the rational n/d in lowest terms with positive denominator (d # 0)
Rat(n, d) ==
    LET g == GCD(Abs(n), Abs(d))
        s == IF d < 0 THEN -1 ELSE 1
    IN  <<(s * n) \div g, (s * d) \div g>>

RZero == <<0, 1>>
RInt(k) == <<k, 1>>
RMul(a, b) == Rat(a[1] * b[1], a[2] * b[2])
\* a / b, for b # 0
RDiv(a, b) == Rat(a[1] * b[2], a[2] * b[1])
RAdd(a, b) == Rat(a[1] * b[2] + b[1] * a[2], a[2] * b[2])
RSq(a) == RMul(a, a)
RIsZero(a) == a[1] = 0
RLess(a, b) == a[1] * b[2] < b[1] * a[2]

Range(seq) == {seq[i] : i \in DOMAIN seq}

RECURSIVE SumOver(_, _)
SumOver(f, S) ==
    IF S = {} THEN 0
    ELSE LET x == CHOOSE y \in S : TRUE IN f[x] + SumOver(f, S \ {x})

\* -------------------------------------------------------- configurations
QuadrantMethods == {"quadrant1", "quadrant2", "quadrant3", "quadrant4"}
DirectionalMethods == {"negative", "positive"}
SelectionMethods == QuadrantMethods \cup DirectionalMethods
\* the single-bin methods "bin<N>" (one is modelled: the content of bin 1)
BinMethods == {"bin1"}

\* The options units offered to the single-metric pipeline: type and the
\* method list (one method per location; location i is the i-th entry).
OccOptions ==
    {[type |-> "absolute", method |-> <<"raw">>],
     [type |-> "absolute", method |-> <<"negative">>]}
    \cup {[type |-> "ratio", method |-> <<"raw", m>>] :
            m \in {"raw"} \cup SelectionMethods \cup BinMethods}

\* options_for_eff.py: the unit of the multi-sensor variant
EffOptions == [type |-> "absolute", method |-> <<"publish_multi_modules">>]

\* ---------------------------------------------------- run database payloads
\* What the file rundb_files/<run> can hold: text that is not JSON, JSON
\* that is not an object, or an object.  A timestamp is the number of
\* seconds time.mktime(time.strptime(..)) gives for it; BadTime stands for a
\* string that does not match rundb_time_format.
BadTime == 0 - 1
NoInfo == [kind |-> "none", state |-> "", destination |-> "",
           starttime |-> BadTime, endtime |-> BadTime]
RunLengths == {min_run_length - 1, min_run_length, 2 * min_run_length}
Payloads ==
    {[kind |-> k, state |-> "", destination |-> "",
      starttime |-> BadTime, endtime |-> BadTime] : k \in {"garbage", "nondict"}}
    \cup [kind : {"dict"}, state : {"CREATED", "ENDED"},
          destination : {"OFFLINE", "LOCAL"},
          starttime : {0, BadTime}, endtime : RunLengths]

\* --------------------------------------------------------- histogram objects
\* A histogram found in an archive: 1-dimensional (ny = 1) or 2-dimensional,
\* its bin contents and the bins that hold the value 0.  GetEntries() is
\* answered apart from the contents, from the same set.
BinContents == {0, MaxBin}
Objects ==
    {[is2D |-> FALSE, zero_x |-> zx, zero_y |-> zx, content |-> c] :
        zx \in XBins, c \in [XBins \X {1} -> BinContents]}
    \cup
    {[is2D |-> TRUE, zero_x |-> zx, zero_y |-> zy, content |-> c] :
        zx \in XBins, zy \in YBins, c \in [XBins \X YBins -> BinContents]}

Max(S) == CHOOSE x \in S : \A y \in S : y <= x
GetNbinsX(h) == Max(XBins)
GetNbinsY(h) == IF h.is2D THEN Max(YBins) ELSE 1

\* TH1::Integral over the inclusive bin ranges x1..x2, y1..y2
Integral(h, x1, x2, y1, y2) ==
    SumOver(h.content, {b \in DOMAIN h.content :
                          b[1] \in x1..x2 /\ b[2] \in y1..y2})

VARIABLES
    pipeline,        \* "occ" or "eff": which script runs
    options,         \* the loaded options unit
    argv,            \* the command line
    pc,              \* position of the script
    exit_status,     \* -1 while running, else the process exit status
    error,           \* what ended the process early ("" if nothing did)
    run,             \* the loop variable
    run_info_dict, run_length,
    checks,          \* admission checks made for the current run, in order
                     \* ("create" is the request sent to createrunsaveset)
    runs_info,       \* [numbers, length]
    loc,             \* index into options["locations"] / VELO_SENSOR_NAMES
    temp_counts, temp_errors,
    selection,       \* the last entries_selection call and its outcome
    counts, errors,  \* options["counts"], options["errors"]
    dqdb,            \* the save_in_dqdb calls made, in order
    published_data_for_verification,
    output_plot,     \* the bins of the rendered plot (<<>> before rendering)
    facts,           \* what the environment answered about the current run
    run_filename,    \* the saveset path of the current run
    y_axis           \* the display range <<minimum, maximum>> of the plot
                     \* (<<>> before it is set)

vars == <<pipeline, options, argv, pc, exit_status, error, run,
          run_info_dict, run_length, checks, runs_info, loc,
          temp_counts, temp_errors, selection, counts, errors, dqdb,
          published_data_for_verification, output_plot, facts, run_filename,
          y_axis>>

NoSelection == [type |-> "", is2D |-> FALSE, kind |-> "", value |-> 0]

run_lower == argv.lower
run_upper == argv.upper

\* ------------------------------------------------------------ saveset path
\* math.floor of the quotient q (exact for every run number modelled)
floor(q) == q[1] \div q[2]

\* str(n) of a non-negative int: its decimal digits
Digits == <<"0", "1", "2", "3", "4", "5", "6", "7", "8", "9">>
RECURSIVE str(_)
str(n) == IF n < 10 THEN Digits[n + 1]
          ELSE str(n \div 10) \o Digits[(n % 10) + 1]

\* the shard with both levels rounded to the nearest multiple
run_dir_from_run_no_rounded(run_no) ==
    LET sd_1 == ((run_no + 5000) \div 10000) * 10000
        sd_2 == ((run_no + 500) \div 1000) * 1000
    IN  str(sd_1) \o "/" \o str(sd_2) \o "/"

\* run_dir_from_run_no of plot_occupancies.py
run_dir_from_run_no(run_no) ==
    LET sd_1 == floor(Rat(run_no, 10000)) * 10000
        sd_2 == floor(Rat(run_no, 1000)) * 1000
    IN  str(sd_1) \o "/" \o str(sd_2) \o "/"

\* run_dir_from_run_no of plot_pseudo_efficiencies.py (an f-string)
run_dir_from_run_no_multi(run_no) ==
    LET sd_1 == floor(Rat(run_no, 10000)) * 10000
        sd_2 == floor(Rat(run_no, 1000)) * 1000
    IN  str(sd_1) \o "/" \o str(sd_2) \o "/"

\* the function of the script that runs
RunDir(run_no) ==
    IF pipeline = "occ" THEN run_dir_from_run_no(run_no)
    ELSE run_dir_from_run_no_multi(run_no)

\* the optional key of the options unit, RecoMon without it
provider ==
    IF "provider" \in DOMAIN options THEN options["provider"] ELSE "RecoMon"
saveset_dir == "/hist/Savesets/ByRun/" \o provider \o "/"
file_prefix == provider \o "-run"
file_suffix == ".root"

\* facts: what the environment answered while the current run is processed
\*   meta      "" | "absent" | "file" | "garbage" | "nondict" | "dict": what
\*             rundb_files/<run> holds after the fetch
\*   state     the state field of a dict payload
\*   timesok   the timestamps of a dict payload parse
\*   archive   "" | "absent" (still missing after the creation request) |
\*             "zombie" | "recovered" | "good"
\*   locations "" | "missing" | "present"
\*   dims      "" | "1D" (a quadrant/directional method met a 1D object)
\*   publish   "" | "raised" (a save_in_dqdb call raised)
NoFacts == [meta |-> "", state |-> "", timesok |-> FALSE,
            archive |-> "", locations |-> "", dims |-> "", publish |-> ""]

Init ==
    /\ \/ pipeline = "occ" /\ options \in OccOptions
       \/ pipeline = "eff" /\ options = EffOptions
    /\ argv \in [argc : ArgCounts, ints : BOOLEAN, lower : Runs, upper : Runs]
    /\ pc = "args"
    /\ exit_status = -1
    /\ error = ""
    /\ run = 0
    /\ run_info_dict = NoInfo
    /\ run_length = 0
    /\ checks = <<>>
    /\ runs_info = [numbers |-> <<>>, length |-> <<>>]
    /\ loc = 0
    /\ temp_counts = <<>>
    /\ temp_errors = <<>>
    /\ selection = NoSelection
    /\ counts = <<>>
    /\ errors = <<>>
    /\ dqdb = <<>>
    /\ published_data_for_verification =
         [s \in 1..Len(VELO_SENSOR_NAMES) |-> [m \in 0..(TOTAL_MODULES - 1) |-> <<>>]]
    /\ output_plot = <<>>
    /\ facts = NoFacts
    /\ run_filename = ""
    /\ y_axis = <<>>

\* ------------------------------------------------------------- helpers
\* sys.exit(code)
Exit(code, why) ==
    /\ pc' = "exited"
    /\ exit_status' = code
    /\ error' = why

\* an exception nothing catches: traceback, exit status 1
Crash(exc) ==
    /\ pc' = "crashed"
    /\ exit_status' = 1
    /\ error' = exc

\* the `continue` statement of the run loop
Continue ==
    /\ pc' = "loop"
    /\ UNCHANGED <<exit_status, error>>

Goto(label) ==
    /\ pc' = label
    /\ UNCHANGED <<exit_status, error>>

Note(field, value) ==
    facts' = [facts EXCEPT ![field] = value]

\* entries_selection with its dimensionality guard written for the first
\* three quadrants only (quadrant4 slips through to the integral).
entries_selection_guard3(histogram, selection_type) ==
    LET is2D == histogram.is2D
        zero_x == histogram.zero_x
        zero_y == IF is2D THEN histogram.zero_y ELSE histogram.zero_x
        nx == GetNbinsX(histogram)
        ny == GetNbinsY(histogram)
        Value(v) == [kind |-> "value", value |-> v]
    IN  IF selection_type \in {"quadrant1", "quadrant2", "quadrant3"} /\ ~is2D
        THEN [kind |-> "exit", value |-> 0]
        ELSE CASE selection_type = "negative" ->
                    IF is2D THEN Value(Integral(histogram, 1, zero_x, 1, ny))
                    ELSE Value(Integral(histogram, 1, zero_x, 1, 1))
               [] selection_type = "positive" ->
                    IF is2D THEN Value(Integral(histogram, zero_x, nx, 1, ny))
                    ELSE Value(Integral(histogram, zero_x, nx, 1, 1))
               [] selection_type = "quadrant1" ->
                    Value(Integral(histogram, zero_x, nx, zero_y, ny))
               [] selection_type = "quadrant2" ->
                    Value(Integral(histogram, 1, zero_x, zero_y, ny))
               [] selection_type = "quadrant3" ->
                    Value(Integral(histogram, 1, zero_x, 1, zero_y))
               [] selection_type = "quadrant4" ->
                    Value(Integral(histogram, zero_x, nx, 1, zero_y))
               [] OTHER -> [kind |-> "exit", value |-> 0]

\* entries_selection(histogram, selection_type): the value returned, or the
\* process exit it makes.
entries_selection(histogram, selection_type) ==
    LET is2D == histogram.is2D
        zero_x == histogram.zero_x
        zero_y == IF is2D THEN histogram.zero_y ELSE histogram.zero_x
        nx == GetNbinsX(histogram)
        ny == GetNbinsY(histogram)
        Value(v) == [kind |-> "value", value |-> v]
    IN  IF selection_type \in QuadrantMethods /\ ~is2D
        THEN [kind |-> "exit", value |-> 0]
        ELSE CASE selection_type = "negative" ->
                    IF is2D THEN Value(Integral(histogram, 1, zero_x, 1, ny))
                    ELSE Value(Integral(histogram, 1, zero_x, 1, 1))
               [] selection_type = "positive" ->
                    IF is2D THEN Value(Integral(histogram, zero_x, nx, 1, ny))
                    ELSE Value(Integral(histogram, zero_x, nx, 1, 1))
               [] selection_type = "quadrant1" ->
                    Value(Integral(histogram, zero_x, nx, zero_y, ny))
               [] selection_type = "quadrant2" ->
                    Value(Integral(histogram, 1, zero_x, zero_y, ny))
               [] selection_type = "quadrant3" ->
                    Value(Integral(histogram, 1, zero_x, 1, zero_y))
               [] selection_type = "quadrant4" ->
                    Value(Integral(histogram, zero_x, nx, 1, zero_y))
               [] OTHER -> [kind |-> "exit", value |-> 0]

\* the exit of entries_selection written as a skip of the run
SkipRunOnWrongDimensionality == Continue

\* print(.. "is not 2D histogram, choose a different method"); sys.exit(0)
WrongDimensionality == Exit(0, "WrongDimensionality")

\* ------------------------------------------------------------ start-up
\* The exit status each script gives a bad command line.
UsageStatus == IF pipeline = "occ" THEN 0 ELSE 1

\* Argument handling of both scripts.
ParseArgs ==
    /\ pc = "args"
    /\ IF argv.argc < 4
       THEN Exit(UsageStatus, "usage")
       ELSE IF ~argv.ints
       THEN IF pipeline = "occ" THEN Crash("ValueError") ELSE Exit(1, "usage")
       ELSE IF run_upper < run_lower
       THEN Exit(UsageStatus, "usage")
       ELSE Goto("options")
    /\ UNCHANGED <<pipeline, options, argv, run_filename, y_axis, run,
                   run_info_dict, run_length, checks, runs_info, loc,
                   temp_counts, temp_errors, selection, counts, errors,
                   dqdb, published_data_for_verification, output_plot, facts>>

\* Loading the options unit, the required keys and the git key.
LoadOptions ==
    /\ pc = "options"
    /\ \E ok \in BOOLEAN :
         IF ok THEN Goto("loop") /\ run' = run_lower - 1
         ELSE Exit(1, "ConfigError") /\ run' = run
    /\ UNCHANGED <<pipeline, options, argv, run_filename, y_axis,
                   run_info_dict, run_length, checks, runs_info, loc,
                   temp_counts, temp_errors, selection, counts, errors,
                   dqdb, published_data_for_verification, output_plot, facts>>

\* ------------------------------------------------------------ run loop
\* `for run in range(run_lower, run_upper+1)`: next run, or leave the loop.
\* The per-run variables are dead here; they are cleared.
LoopHead ==
    /\ pc = "loop"
    /\ IF run + 1 > run_upper
       THEN Goto("render") /\ run' = run
       ELSE Goto("fetch") /\ run' = run + 1
    /\ run_info_dict' = NoInfo
    /\ run_length' = 0
    /\ checks' = <<>>
    /\ loc' = 0
    /\ temp_counts' = <<>>
    /\ temp_errors' = <<>>
    /\ selection' = NoSelection
    /\ facts' = NoFacts
    /\ run_filename' = IF run + 1 > run_upper THEN run_filename
                       ELSE saveset_dir \o RunDir(run + 1) \o file_prefix
                              \o str(run + 1) \o file_suffix
    /\ UNCHANGED <<pipeline, options, argv, y_axis,
                   runs_info, counts, errors, dqdb,
                   published_data_for_verification, output_plot>>

\* The wget of the run's metadata when no cached file exists.  Whether an
\* earlier execution left the file is read here, where the code looks.
FetchRunInfo ==
    /\ pc = "fetch"
    /\ \E cached \in BOOLEAN, fetched \in BOOLEAN :
         /\ cached => ~fetched
         /\ Note("meta", IF cached \/ fetched THEN "file" ELSE "absent")
    /\ Goto("parse")
    /\ UNCHANGED <<pipeline, options, argv, run_filename, y_axis, run,
                   run_info_dict, run_length, checks, runs_info, loc,
                   temp_counts, temp_errors, selection, counts, errors,
                   dqdb, published_data_for_verification, output_plot>>

\* Reading and parsing rundb_files/<run>.
ReadRunInfo ==
    /\ pc = "parse"
    /\ IF facts.meta = "absent"
       THEN /\ facts' = facts
            /\ run_info_dict' = run_info_dict
            /\ IF pipeline = "occ" THEN Crash("FileNotFoundError") ELSE Continue
       ELSE \E payload \in Payloads :
            /\ facts' = [facts EXCEPT !.meta = payload.kind,
                                      !.state = payload.state,
                                      !.timesok = payload.kind = "dict"
                                                  /\ payload.starttime # BadTime]
            /\ IF payload.kind = "garbage"
               THEN /\ run_info_dict' = run_info_dict
                    /\ IF pipeline = "occ" THEN Crash("JSONDecodeError")
                       ELSE Continue
               ELSE /\ run_info_dict' = payload
                    /\ Goto("state")
    /\ UNCHANGED <<pipeline, options, argv, run_filename, y_axis, run,
                   run_length, checks, runs_info, loc,
                   temp_counts, temp_errors, selection, counts, errors,
                   dqdb, published_data_for_verification, output_plot>>

\* Check 1 comparing the state with the wrong spelling of CREATED.
CheckStateMisspelt ==
    /\ pc = "state"
    /\ checks' = Append(checks, "state")
    /\ IF run_info_dict.kind # "dict"
       THEN IF pipeline = "occ" THEN Continue ELSE Crash("AttributeError")
       ELSE IF run_info_dict.state = "created"
       THEN Continue
       ELSE Goto("destination")
    /\ UNCHANGED <<pipeline, options, argv, run_filename, y_axis, run,
                   run_info_dict, run_length, runs_info, loc,
                   temp_counts, temp_errors, selection, counts, errors,
                   dqdb, published_data_for_verification, output_plot, facts>>

\* Check 1: the run's state.
CheckState ==
    /\ pc = "state"
    /\ checks' = Append(checks, "state")
    /\ IF run_info_dict.kind # "dict"
       THEN IF pipeline = "occ" THEN Continue ELSE Crash("AttributeError")
       ELSE IF run_info_dict.state = "CREATED"
       THEN Continue
       ELSE Goto("destination")
    /\ UNCHANGED <<pipeline, options, argv, run_filename, y_axis, run,
                   run_info_dict, run_length, runs_info, loc,
                   temp_counts, temp_errors, selection, counts, errors,
                   dqdb, published_data_for_verification, output_plot, facts>>

\* Check 2: the destination filter.
CheckDestination ==
    /\ pc = "destination"
    /\ checks' = Append(checks, "destination")
    /\ IF require_offline /\ run_info_dict.destination # "OFFLINE"
       THEN Continue
       ELSE Goto(IF pipeline = "occ" THEN "exists" ELSE "length")
    /\ UNCHANGED <<pipeline, options, argv, run_filename, y_axis, run,
                   run_info_dict, run_length, runs_info, loc,
                   temp_counts, temp_errors, selection, counts, errors,
                   dqdb, published_data_for_verification, output_plot, facts>>

\* The saveset's existence, the creation request when it is missing, and the
\* second look.
EnsureSaveset ==
    /\ pc = "exists"
    /\ \E present \in BOOLEAN, created \in BOOLEAN :
         LET next == IF pipeline = "occ" THEN "length" ELSE "open" IN
         IF present
         THEN /\ ~created
              /\ checks' = Append(checks, "exists")
              /\ Goto(next)
              /\ facts' = facts
         ELSE /\ checks' = checks \o <<"exists", "create">>
              /\ IF created
                 THEN Goto(next) /\ facts' = facts
                 ELSE Continue /\ Note("archive", "absent")
    /\ UNCHANGED <<pipeline, options, argv, run_filename, y_axis, run,
                   run_info_dict, run_length, runs_info, loc,
                   temp_counts, temp_errors, selection, counts, errors,
                   dqdb, published_data_for_verification, output_plot>>

\* The minimum-length check rejecting a run of exactly min_run_length too.
CheckRunLengthInclusive ==
    /\ pc = "length"
    /\ checks' = Append(checks, "length")
    /\ IF run_info_dict.starttime = BadTime \/ run_info_dict.endtime = BadTime
       THEN /\ run_length' = run_length
            /\ IF pipeline = "occ" THEN Crash("ValueError") ELSE Continue
       ELSE /\ run_length' = run_info_dict.endtime - run_info_dict.starttime
            /\ IF run_length' <= min_run_length
               THEN Continue
               ELSE Goto(IF pipeline = "occ" THEN "open" ELSE "exists")
    /\ UNCHANGED <<pipeline, options, argv, run_filename, y_axis, run,
                   run_info_dict, runs_info, loc,
                   temp_counts, temp_errors, selection, counts, errors,
                   dqdb, published_data_for_verification, output_plot, facts>>

\* The run length from the two timestamps, and the minimum-length check.
CheckRunLength ==
    /\ pc = "length"
    /\ checks' = Append(checks, "length")
    /\ IF run_info_dict.starttime = BadTime \/ run_info_dict.endtime = BadTime
       THEN /\ run_length' = run_length
            /\ IF pipeline = "occ" THEN Crash("ValueError") ELSE Continue
       ELSE /\ run_length' = run_info_dict.endtime - run_info_dict.starttime
            /\ IF run_length' < min_run_length
               THEN Continue
               ELSE Goto(IF pipeline = "occ" THEN "open" ELSE "exists")
    /\ UNCHANGED <<pipeline, options, argv, run_filename, y_axis, run,
                   run_info_dict, runs_info, loc,
                   temp_counts, temp_errors, selection, counts, errors,
                   dqdb, published_data_for_verification, output_plot, facts>>

\* run_length/3600., the entry of runs_info["length"]
LengthHours(seconds) == Rat(seconds, SecondsPerHour)

\* TFile.Open, the null/zombie test (multi-sensor variant only), the
\* kRecovered test, and the admission of the run into runs_info.
OpenSaveset ==
    /\ pc = "open"
    /\ \E kind \in {"good", "zombie", "recovered"} :
         /\ Note("archive", kind)
         /\ CASE kind = "zombie" ->
                   /\ checks' = Append(checks, "open")
                   /\ IF pipeline = "occ" THEN Crash("NullFile") ELSE Continue
                   /\ UNCHANGED <<runs_info, loc>>
              [] kind = "recovered" ->
                   /\ checks' = checks \o <<"open", "recovered">>
                   /\ Continue
                   /\ UNCHANGED <<runs_info, loc>>
              [] kind = "good" ->
                   /\ checks' = checks \o <<"open", "recovered">>
                   /\ runs_info' =
                        [numbers |-> Append(runs_info.numbers, run),
                         length |-> Append(runs_info.length,
                                           LengthHours(run_length))]
                   /\ loc' = 1
                   /\ Goto(IF pipeline = "occ" THEN "locations" ELSE "sensors")
    /\ UNCHANGED <<pipeline, options, argv, run_filename, y_axis, run,
                   run_info_dict, run_length,
                   temp_counts, temp_errors, selection, counts, errors,
                   dqdb, published_data_for_verification, output_plot>>

\* ------------------------------------------- single-metric pipeline: a run
\* First pass over options["locations"]: is every location in the archive?
CheckLocations ==
    /\ pc = "locations"
    /\ \E location_not_found \in BOOLEAN :
         IF location_not_found
         THEN Continue /\ Note("locations", "missing")
         ELSE Goto("extract") /\ Note("locations", "present")
    /\ UNCHANGED <<pipeline, options, argv, run_filename, y_axis, run,
                   run_info_dict, run_length, checks, runs_info, loc,
                   temp_counts, temp_errors, selection, counts, errors,
                   dqdb, published_data_for_verification, output_plot>>

\* this_count and this_count_err are appended; the loop goes to the next
\* location, or on to the combination after the last one.
AppendSample(this_count, this_count_err) ==
    /\ temp_counts' = Append(temp_counts, this_count)
    /\ temp_errors' = Append(temp_errors, this_count_err)
    /\ loc' = loc + 1
    /\ Goto(IF loc = Len(options.method) THEN "combine" ELSE "extract")

\* One iteration of the second pass: the sample of location loc.
\* temp_errors holds the squares of the code's this_count_err.
ExtractLocation ==
    /\ pc = "extract"
    /\ LET method == options.method[loc]
           hours == runs_info.length[Len(runs_info.length)]
       IN
       CASE method = "raw" ->
              \E raw_count \in BinContents :
                /\ AppendSample(RDiv(RInt(raw_count), hours),
                                RDiv(RInt(raw_count), RSq(hours)))
                /\ UNCHANGED <<selection, facts>>
         [] method \in SelectionMethods ->
              \E run_object \in Objects :
                LET sel == entries_selection(run_object, method) IN
                /\ selection' = [type |-> method, is2D |-> run_object.is2D,
                                 kind |-> sel.kind, value |-> sel.value]
                /\ IF run_object.is2D THEN facts' = facts
                   ELSE Note("dims", "1D")
                /\ IF sel.kind = "exit"
                   THEN /\ WrongDimensionality
                        /\ UNCHANGED <<temp_counts, temp_errors, loc>>
                   ELSE IF temp_counts = <<>>
                   THEN /\ Crash("IndexError")
                        /\ UNCHANGED <<temp_counts, temp_errors, loc>>
                   ELSE IF sel.value = 0
                   THEN /\ Crash("ZeroDivisionError")
                        /\ UNCHANGED <<temp_counts, temp_errors, loc>>
                   ELSE AppendSample(
                          RDiv(RInt(sel.value), hours),
                          RDiv(RSq(temp_counts[Len(temp_counts)]),
                               RInt(sel.value)))
         [] method \in BinMethods ->
              \E raw_count \in BinContents :
                /\ IF temp_counts = <<>>
                   THEN /\ Crash("IndexError")
                        /\ UNCHANGED <<temp_counts, temp_errors, loc>>
                   ELSE IF raw_count = 0
                   THEN /\ Crash("ZeroDivisionError")
                        /\ UNCHANGED <<temp_counts, temp_errors, loc>>
                   ELSE AppendSample(
                          RDiv(RInt(raw_count), hours),
                          RDiv(RSq(temp_counts[Len(temp_counts)]),
                               RInt(raw_count)))
                /\ UNCHANGED <<selection, facts>>
    /\ UNCHANGED <<pipeline, options, argv, run_filename, y_axis, run,
                   run_info_dict, run_length, checks, runs_info,
                   counts, errors, dqdb, published_data_for_verification,
                   output_plot>>

\* The publish call with the value and its error in each other's place.
SaveInDqdbSwapped(value, err) ==
    \E raised \in BOOLEAN :
      /\ dqdb' = Append(dqdb, [run |-> run, metric |-> <<"name", 0>>,
                               value |-> err, error |-> value])
      /\ IF raised
         THEN Crash("PublishFailure") /\ Note("publish", "raised")
         ELSE Continue /\ facts' = facts

\* save_in_dqdb(git_key, run, '', {name: value, name_err: error}, ..): the
\* call is made; it returns, or it raises and nothing catches it here.
SaveInDqdb(value, err) ==
    \E raised \in BOOLEAN :
      /\ dqdb' = Append(dqdb, [run |-> run, metric |-> <<"name", 0>>,
                               value |-> value, error |-> err])
      /\ IF raised
         THEN Crash("PublishFailure") /\ Note("publish", "raised")
         ELSE Continue /\ facts' = facts

\* The combination publishing the zero point of a ratio like any other.
CombinePublishingSentinel ==
    /\ pc = "combine"
    /\ IF options.type = "absolute"
       THEN /\ counts' = Append(counts, temp_counts[1])
            /\ errors' = Append(errors, temp_errors[1])
            /\ IF publish_to_dqdb
               THEN SaveInDqdb(temp_counts[1], temp_errors[1])
               ELSE Continue /\ UNCHANGED <<dqdb, facts>>
       ELSE IF RIsZero(temp_counts[1]) \/ RIsZero(temp_counts[2])
       THEN /\ counts' = Append(counts, RZero)
            /\ errors' = Append(errors, RZero)
            /\ IF publish_to_dqdb
               THEN SaveInDqdb(RZero, RZero)
               ELSE Continue /\ UNCHANGED <<dqdb, facts>>
       ELSE LET this_ratio == RDiv(temp_counts[1], temp_counts[2])
                this_err ==
                  RMul(RSq(this_ratio),
                       RAdd(RDiv(temp_errors[1], RSq(temp_counts[1])),
                            RDiv(temp_errors[2], RSq(temp_counts[2]))))
            IN  /\ counts' = Append(counts, this_ratio)
                /\ errors' = Append(errors, this_err)
                /\ IF publish_to_dqdb
                   THEN SaveInDqdb(this_ratio, this_err)
                   ELSE Continue /\ UNCHANGED <<dqdb, facts>>
    /\ UNCHANGED <<pipeline, options, argv, run_filename, y_axis, run,
                   run_info_dict, run_length, checks, runs_info, loc,
                   temp_counts, temp_errors, selection,
                   published_data_for_verification, output_plot>>

\* The series point of the run from its samples, and its publication.
Combine ==
    /\ pc = "combine"
    /\ IF options.type = "absolute"
       THEN /\ counts' = Append(counts, temp_counts[1])
            /\ errors' = Append(errors, temp_errors[1])
            /\ IF publish_to_dqdb
               THEN SaveInDqdb(temp_counts[1], temp_errors[1])
               ELSE Continue /\ UNCHANGED <<dqdb, facts>>
       ELSE IF RIsZero(temp_counts[1]) \/ RIsZero(temp_counts[2])
       THEN /\ counts' = Append(counts, RZero)
            /\ errors' = Append(errors, RZero)
            /\ Continue
            /\ UNCHANGED <<dqdb, facts>>
       ELSE LET this_ratio == RDiv(temp_counts[1], temp_counts[2])
                this_err ==
                  RMul(RSq(this_ratio),
                       RAdd(RDiv(temp_errors[1], RSq(temp_counts[1])),
                            RDiv(temp_errors[2], RSq(temp_counts[2]))))
            IN  /\ counts' = Append(counts, this_ratio)
                /\ errors' = Append(errors, this_err)
                /\ IF publish_to_dqdb
                   THEN SaveInDqdb(this_ratio, this_err)
                   ELSE Continue /\ UNCHANGED <<dqdb, facts>>
    /\ UNCHANGED <<pipeline, options, argv, run_filename, y_axis, run,
                   run_info_dict, run_length, checks, runs_info, loc,
                   temp_counts, temp_errors, selection,
                   published_data_for_verification, output_plot>>

\* ----------------------------------------------------- the y-axis range
\* The bin contents of output_plot once filled.  TH1F makes one bin when it
\* is asked for none, so a plot of no run has one bin of content 0.
PlotContents ==
    IF runs_info.numbers = <<>> THEN <<RZero>>
    ELSE [i \in 1..Len(runs_info.numbers) |->
            IF i <= Len(counts) THEN counts[i] ELSE RZero]

\* output_plot.GetMinimum(), output_plot.GetMaximum()
GetMinimum(contents) ==
    CHOOSE x \in Range(contents) : \A y \in Range(contents) : ~RLess(y, x)
GetMaximum(contents) ==
    CHOOSE x \in Range(contents) : \A y \in Range(contents) : ~RLess(x, y)

RECURSIVE RSum(_)
RSum(contents) ==
    IF contents = <<>> THEN RZero
    ELSE RAdd(contents[1], RSum(Tail(contents)))

\* The working maximum taken the other way round: the observed maximum when
\* the mean is below a fifth of it, the mean otherwise.
WorkingMaximumInverted(contents) ==
    LET mean == RDiv(RSum(contents), RInt(Len(contents)))
        maximum == GetMaximum(contents)
    IN  IF RLess(RMul(RInt(5), mean), maximum) THEN maximum ELSE mean

\* output_plot_maximum after the outlier logic: the mean bin content,
\* replaced by the observed maximum when 5.*mean > maximum
WorkingMaximum(contents) ==
    LET mean == RDiv(RSum(contents), RInt(Len(contents)))
        maximum == GetMaximum(contents)
    IN  IF RLess(maximum, RMul(RInt(5), mean)) THEN maximum ELSE mean

\* the range given to SetRangeUser when no y_range is configured
HeuristicRange(contents) ==
    LET output_plot_minimum == GetMinimum(contents)
        output_plot_maximum == GetMaximum(contents)
    IN  IF RLess(RZero, output_plot_minimum)
        THEN <<RZero, RMul(<<3, 2>>, WorkingMaximum(contents))>>
        ELSE IF RLess(RZero, output_plot_maximum)
        THEN <<RMul(<<3, 2>>, output_plot_minimum),
               RMul(<<3, 2>>, output_plot_maximum)>>
        ELSE <<RMul(<<3, 2>>, output_plot_minimum),
               RMul(<<1, 2>>, output_plot_maximum)>>

\* the configured range with its lower end replaced by 0
ExplicitRangeFromZero(y_range) == <<RZero, y_range[2]>>

\* SetMinimum(y_range[0]); SetMaximum(y_range[1])
ExplicitRange(y_range) == <<y_range[1], y_range[2]>>

\* The local plot: one bin per entry of runs_info["numbers"]; bin i takes
\* the i-th series point and the i-th run number as its label.  A bin that
\* no series point fills keeps content 0 and no label (label 0).
\* output_plot holds the bins, y_axis the display range; the files written
\* are no part of the model.
Render ==
    /\ pc = "render"
    /\ pipeline = "occ"
    /\ IF Len(counts) > Len(runs_info.numbers)
       THEN Crash("IndexError") /\ UNCHANGED <<output_plot, y_axis>>
       ELSE /\ output_plot' =
                 [i \in 1..Len(runs_info.numbers) |->
                    IF i <= Len(counts)
                    THEN [label |-> runs_info.numbers[i],
                          content |-> counts[i], error |-> errors[i]]
                    ELSE [label |-> 0, content |-> RZero, error |-> RZero]]
            /\ y_axis' = IF "y_range" \in DOMAIN options
                         THEN ExplicitRange(options["y_range"])
                         ELSE HeuristicRange(PlotContents)
            /\ pc' = "done"
            /\ exit_status' = 0
            /\ error' = error
    /\ UNCHANGED <<pipeline, options, argv, run_filename, run,
                   run_info_dict, run_length, checks, runs_info, loc,
                   temp_counts, temp_errors, selection, counts, errors,
                   dqdb, published_data_for_verification, facts>>

\* ------------------------------------------- multi-sensor variant: a run
\* hist.GetBinContent(bin) and hist.GetBinError(bin) of the sensor's
\* histogram in the run's archive: values the script only passes on.
GetBinContent(r, sensor, bin) == <<"content", r, sensor, bin>>
GetBinError(r, sensor, bin) == <<"error", r, sensor, bin>>

\* hist.GetNbinsX(): a bin for every module, or one bin short
HistBins == {TOTAL_MODULES - 1, TOTAL_MODULES}

\* One iteration of the sensor loop: the histogram of sensor loc, and for
\* each module with a valid bin the local point and the publish call, whose
\* failure is caught and logged.
ProcessSensor ==
    /\ pc = "sensors"
    /\ \E found \in BOOLEAN, nbins \in HistBins, raised \in BOOLEAN :
         LET sensor_name == VELO_SENSOR_NAMES[loc]
             valid == IF found
                      THEN {m \in 0..(TOTAL_MODULES - 1) :
                              ~(m + 1 < 1 \/ m + 1 > nbins)}
                      ELSE {}
             Point(m) == [run |-> run,
                          value |-> GetBinContent(run, sensor_name, m + 1),
                          error |-> GetBinError(run, sensor_name, m + 1)]
             Call(m) == [run |-> run, metric |-> <<sensor_name, m>>,
                         value |-> GetBinContent(run, sensor_name, m + 1),
                         error |-> GetBinError(run, sensor_name, m + 1)]
         IN
         /\ ~found => nbins = TOTAL_MODULES
         /\ raised => valid # {} /\ publish_to_dqdb
         /\ published_data_for_verification' =
              [published_data_for_verification EXCEPT ![loc] =
                 [m \in 0..(TOTAL_MODULES - 1) |->
                    IF m \in valid THEN Append(@[m], Point(m)) ELSE @[m]]]
         /\ dqdb' = IF publish_to_dqdb
                    THEN dqdb \o [k \in 1..Cardinality(valid) |-> Call(k - 1)]
                    ELSE dqdb
         /\ IF raised THEN Note("publish", "raised") ELSE facts' = facts
    /\ loc' = loc + 1
    /\ IF loc = Len(VELO_SENSOR_NAMES) THEN Continue ELSE Goto("sensors")
    /\ UNCHANGED <<pipeline, options, argv, run_filename, y_axis, run,
                   run_info_dict, run_length, checks, runs_info,
                   temp_counts, temp_errors, selection, counts, errors,
                   output_plot>>

\* The verification PNGs, one per sensor that has a point, and sys.exit(0).
Verify ==
    /\ pc = "render"
    /\ pipeline = "eff"
    /\ output_plot' =
         [s \in 1..Len(VELO_SENSOR_NAMES) |->
            \E m \in 0..(TOTAL_MODULES - 1) :
              published_data_for_verification[s][m] # <<>>]
    /\ pc' = "done"
    /\ exit_status' = 0
    /\ error' = error
    /\ UNCHANGED <<pipeline, options, argv, run_filename, y_axis, run,
                   run_info_dict, run_length, checks, runs_info, loc,
                   temp_counts, temp_errors, selection, counts, errors,
                   dqdb, published_data_for_verification, facts>>

Next ==
    \/ ParseArgs
    \/ LoadOptions
    \/ LoopHead
    \/ FetchRunInfo
    \/ ReadRunInfo
    \/ CheckState
    \/ CheckDestination
    \/ EnsureSaveset
    \/ CheckRunLength
    \/ OpenSaveset
    \/ CheckLocations
    \/ ExtractLocation
    \/ Combine
    \/ Render
    \/ ProcessSensor
    \/ Verify

Spec == Init /\ [][Next]_vars

\* ------------------------------------------- the saveset path on its own
\* The run numbers handed to the path computation: both ends of every
\* block of a thousand up to MaxThousand, and a six-digit run.
RunNumbers ==
    {k * 1000 + d : k \in 0..MaxThousand, d \in {0, 999}} \cup {265911}

\* The state at the head of the run loop when the command line names the
\* single run r: the options unit is loaded, with or without a provider key.
InitLocate ==
    /\ pipeline \in {"occ", "eff"}
    /\ \E unit \in {IF pipeline = "occ"
                     THEN [type |-> "absolute", method |-> <<"raw">>]
                     ELSE EffOptions} :
         options \in {unit, unit @@ [provider |-> "BrunelMon"]}
    /\ \E r \in RunNumbers :
         /\ argv = [argc |-> 4, ints |-> TRUE, lower |-> r, upper |-> r]
         /\ run = r - 1
    /\ pc = "loop"
    /\ exit_status = -1
    /\ error = ""
    /\ run_info_dict = NoInfo
    /\ run_length = 0
    /\ checks = <<>>
    /\ runs_info = [numbers |-> <<>>, length |-> <<>>]
    /\ loc = 0
    /\ temp_counts = <<>>
    /\ temp_errors = <<>>
    /\ selection = NoSelection
    /\ counts = <<>>
    /\ errors = <<>>
    /\ dqdb = <<>>
    /\ published_data_for_verification =
         [s \in 1..Len(VELO_SENSOR_NAMES) |-> [m \in 0..(TOTAL_MODULES - 1) |-> <<>>]]
    /\ output_plot = <<>>
    /\ facts = NoFacts
    /\ run_filename = ""
    /\ y_axis = <<>>

\* the first step of the run loop: the path of run r is computed
SpecLocate == InitLocate /\ [][LoopHead]_vars

\* ------------------------------------------- the axis range on its own
\* The bin contents handed to the axis-range policy, in series of
\* 1..MaxSeries points: series of signed values, as the method mean gives
\* them, and series of positive values.
SignedValues == {RInt(v) : v \in {0 - 1, 0, 1, 100}}
PositiveValues == {RInt(v) : v \in {1, 10, 25, 100}}
Series ==
    UNION {[1..n -> SignedValues] \cup [1..n -> PositiveValues] :
             n \in 1..MaxSeries}

\* The state on leaving the run loop when the runs 1..n were all admitted and
\* gave the series: the options unit with or without a y_range key.
InitRender ==
    /\ pipeline = "occ"
    /\ \E unit \in {[type |-> "absolute", method |-> <<"mean">>]} :
         options \in {unit, unit @@ [y_range |-> <<RInt(0 - 5), RInt(50)>>]}
    /\ counts \in Series
    /\ errors = [i \in 1..Len(counts) |-> RZero]
    /\ argv = [argc |-> 4, ints |-> TRUE, lower |-> 1, upper |-> Len(counts)]
    /\ run = Len(counts)
    /\ runs_info = [numbers |-> [i \in 1..Len(counts) |-> i],
                    length |-> [i \in 1..Len(counts) |->
                                  LengthHours(min_run_length)]]
    /\ dqdb = [i \in 1..Len(counts) |->
                [run |-> i, metric |-> <<"name", 0>>,
                 value |-> counts[i], error |-> errors[i]]]
    /\ run_filename = saveset_dir \o RunDir(run) \o file_prefix
                        \o str(run) \o file_suffix
    /\ pc = "render"
    /\ exit_status = -1
    /\ error = ""
    /\ run_info_dict = NoInfo
    /\ run_length = 0
    /\ checks = <<>>
    /\ loc = 0
    /\ temp_counts = <<>>
    /\ temp_errors = <<>>
    /\ selection = NoSelection
    /\ published_data_for_verification =
         [s \in 1..Len(VELO_SENSOR_NAMES) |-> [m \in 0..(TOTAL_MODULES - 1) |-> <<>>]]
    /\ output_plot = <<>>
    /\ facts = NoFacts
    /\ y_axis = <<>>

\* the plot and its axis range from the series
SpecRender == InitRender /\ [][Render]_vars

\* =================================================================== claims
Last(seq) == seq[Len(seq)]
BetweenRuns == pc \in {"loop", "render", "done"}
Published(r) == \E i \in DOMAIN dqdb : dqdb[i].run = r
\* C1: in the single-metric pipeline, between runs and at the end, the series
\* has one point per recorded run number, point i being the one published
\* for recorded run i; and a run whose archive lacks a configured location
\* leaves no run-number entry behind.
C1_OnePointPerRecordedRun ==
    pipeline = "occ" =>
      /\ BetweenRuns => Len(counts) = Len(runs_info.numbers)
      /\ facts.locations = "missing" => run \notin Range(runs_info.numbers)
      /\ BetweenRuns /\ options.type = "absolute" =>
           \A i \in DOMAIN dqdb :
             /\ i <= Len(runs_info.numbers)
             /\ dqdb[i].run = runs_info.numbers[i]

\* the order of the admission checks the claim C2 states
CheckRank(c) ==
    CASE c = "state" -> 1
      [] c = "destination" -> 2
      [] c = "length" -> 3
      [] c = "exists" -> 4
      [] c = "create" -> 5
      [] c = "open" -> 6
      [] c = "recovered" -> 7

\* C2: for every run the admission checks are made in the order state,
\* destination, run length, archive existence (with the creation request),
\* open, crash-recovered, the first failing one ending the run: a run
\* rejected as too short has had no archive-existence check and no creation
\* request, and no archive is opened after a failed check.
C2_CheckOrder ==
    /\ pc # "crashed" =>
         \A i, j \in DOMAIN checks :
           i < j => CheckRank(checks[i]) < CheckRank(checks[j])
    /\ "length" \in Range(checks) /\ facts.timesok
         /\ run_length < min_run_length =>
           /\ "exists" \notin Range(checks)
           /\ "create" \notin Range(checks)
           /\ "open" \notin Range(checks)
           /\ pc = "loop"

\* C3 as stated: each of quadrant1..4, negative and positive fails on a
\* 1-dimensional object and returns no value.
C3_AllSelectionsFailOn1D ==
    selection.type \in SelectionMethods /\ ~selection.is2D
      => selection.kind = "exit"

\* C3 as amended: each of quadrant1..4 fails on a 1-dimensional object (the
\* process exits) and returns no value, so no sample is appended; negative
\* and positive return the integral of the 1-dimensional object.
C3_QuadrantsFailOn1D ==
    /\ selection.type \in QuadrantMethods /\ ~selection.is2D =>
         /\ selection.kind = "exit"
         /\ pc = "exited"
         /\ Len(temp_counts) = loc - 1
    /\ selection.type \in DirectionalMethods /\ ~selection.is2D =>
         selection.kind = "value"

C3_Witness ==
    /\ selection.type = "quadrant4"
    /\ ~selection.is2D
    /\ selection.kind = "exit"

\* C4 as stated: a method that needs a 2D object, met with a 1D object, costs
\* only the run: the loop goes on to the next run number.
C4_WrongDimensionalitySkipsRun ==
    selection.kind = "exit" => pc = "loop" /\ exit_status = 0 - 1

\* C4 as amended: a quadrant method met with a 1D object ends the whole
\* pipeline: the process exits with status 0, the run (already recorded in
\* runs_info) gets no series point and no publish, no later run is processed
\* and no plot is rendered.
C4_WrongDimensionalityEndsPipeline ==
    selection.kind = "exit" =>
      /\ pc = "exited"
      /\ exit_status = 0
      /\ error = "WrongDimensionality"
      /\ Last(runs_info.numbers) = run
      /\ Len(counts) < Len(runs_info.numbers)
      /\ ~Published(run)
      /\ output_plot = <<>>

C4_Witness ==
    /\ selection.kind = "exit"
    /\ pc = "exited"
    /\ run < run_upper

\* C5: a publish call that raises does not abort the pipeline, in either
\* script.
C5_PublishFailureNotFatal ==
    facts.publish = "raised" => pc # "crashed"

\* C6: a run whose metadata is unavailable or unparseable is skipped and the
\* pipeline goes on, in either script.
C6_BadMetadataSkipsRun ==
    \/ facts.meta \in {"absent", "garbage", "nondict"}
    \/ facts.meta = "dict" /\ ~facts.timesok /\ facts.state # "CREATED"
         /\ "length" \in Range(checks)
    => /\ pc # "crashed"
       /\ run \notin Range(runs_info.numbers)

\* C7: a run whose archive is missing after the creation request, cannot be
\* opened, or is crash-recovered is skipped (no run-number entry, no series
\* point, no publish) and the pipeline goes on, in either script.
C7_BadArchiveSkipsRun ==
    facts.archive \in {"absent", "zombie", "recovered"} =>
      /\ pc = "loop"
      /\ run \notin Range(runs_info.numbers)
      /\ ~Published(run)

\* C8: with fewer than three positional arguments, or run_upper < run_lower,
\* either script exits with a non-zero status before any run is processed.
C8_BadArgumentsExitNonZero ==
    (argv.argc < 4 \/ (argv.ints /\ run_upper < run_lower)) /\ pc # "args" =>
      /\ pc \in {"exited", "crashed"}
      /\ exit_status > 0
      /\ run = 0

\* C9: a run whose state is CREATED gets no run-number entry, no series
\* point and no publish, and no creation request is sent for it, whatever its
\* other fields; and a run number is recorded only while it is the run being
\* processed, run numbers being taken in ascending order.
C9_CreatedExcluded ==
    [][/\ facts'.state = "CREATED" =>
            /\ runs_info' = runs_info
            /\ counts' = counts
            /\ errors' = errors
            /\ dqdb' = dqdb
            /\ published_data_for_verification' = published_data_for_verification
            /\ "create" \notin Range(checks')
            /\ "exists" \notin Range(checks')
       /\ runs_info'.numbers # runs_info.numbers =>
            /\ runs_info'.numbers = Append(runs_info.numbers, run)
            /\ run' = run
       /\ run' >= run
       /\ run' # run => facts'.state = ""]_vars

C9_Witness ==
    /\ facts.state = "CREATED"
    /\ pc = "loop"
    /\ run_info_dict.destination = "OFFLINE"
    /\ run_info_dict.starttime # BadTime
    /\ run_info_dict.endtime - run_info_dict.starttime > min_run_length
    /\ runs_info.numbers # <<>>

\* C10: every admitted run is at least min_run_length long; a run that ends
\* at the length check is strictly shorter; a run of exactly min_run_length
\* passes the length check and is admitted when its archive is good.
C10_StrictMinimumLength ==
    /\ \A i \in DOMAIN runs_info.length :
         ~RLess(runs_info.length[i], LengthHours(min_run_length))
    /\ "length" \in Range(checks) /\ facts.timesok =>
         /\ run_length < min_run_length =>
              pc = "loop" /\ run \notin Range(runs_info.numbers)
         /\ pc = "loop" /\ Last(checks) = "length" =>
              run_length < min_run_length
         /\ run_length = min_run_length /\ facts.archive = "good" =>
              run \in Range(runs_info.numbers)

C10_Witness ==
    /\ run_length = min_run_length
    /\ run \in Range(runs_info.numbers)
    /\ pc = "loop"

\* C11: in the single-metric pipeline with type ratio, a combination that
\* finds the first or the second sample of the admitted run exactly zero
\* appends exactly one point, (0, 0), to the series, makes no publish call
\* and goes on to the next run; so no publish call of a ratio carries the
\* value 0, and between runs the series has a point for every run that got
\* past extraction.
C11_ZeroSampleGivesSentinel ==
    [][/\ pc = "combine" /\ options.type = "ratio"
            /\ (RIsZero(temp_counts[1]) \/ RIsZero(temp_counts[2])) =>
            /\ counts' = Append(counts, <<0, 1>>)
            /\ errors' = Append(errors, <<0, 1>>)
            /\ dqdb' = dqdb
            /\ pc' = "loop"
            /\ run \in Range(runs_info.numbers)
       /\ options.type = "ratio" =>
            \A i \in DOMAIN dqdb' : dqdb'[i].value[1] # 0]_vars

C11_Witness ==
    /\ pc = "loop"
    /\ options.type = "ratio"
    /\ Len(temp_counts) = 2
    /\ temp_counts[1][1] # 0
    /\ temp_counts[2][1] = 0
    /\ Len(counts) = 2
    /\ counts[1][1] # 0
    /\ counts[2] = <<0, 1>>
    /\ errors[2] = <<0, 1>>
    /\ Len(dqdb) = 1
    /\ ~Published(run)

\* C12: in the single-metric pipeline a publish call is made only by the
\* combination of an admitted run whose locations are all present, one call
\* per step, carrying the run number and the (value, error) pair appended to
\* the series in the same step: samples[0] unchanged for type absolute, the
\* quotient and its propagated error for type ratio; every combination that
\* appends a non-sentinel point makes that call; and the run numbers of the
\* publish calls are strictly ascending.
C12_OnePublishPerPoint ==
    [][pipeline = "occ" =>
         /\ dqdb' # dqdb =>
              /\ pc = "combine"
              /\ facts.archive = "good" /\ facts.locations = "present"
              /\ Last(runs_info.numbers) = run
              /\ Len(counts') = Len(counts) + 1
              /\ Len(errors') = Len(errors) + 1
              /\ dqdb' = Append(dqdb, [run |-> run, metric |-> <<"name", 0>>,
                                       value |-> Last(counts'),
                                       error |-> Last(errors')])
              /\ dqdb # <<>> => Last(dqdb).run < run
         /\ counts' # counts =>
              /\ pc = "combine"
              /\ Len(counts') = Len(counts) + 1
              /\ options.type = "absolute" =>
                   /\ Last(counts') = temp_counts[1]
                   /\ Last(errors') = temp_errors[1]
                   /\ Len(dqdb') = Len(dqdb) + 1
              /\ options.type = "ratio" /\ temp_counts[1][1] # 0
                   /\ temp_counts[2][1] # 0 =>
                   /\ RMul(Last(counts'), temp_counts[2]) = temp_counts[1]
                   /\ RMul(Last(errors'),
                           RMul(RSq(temp_counts[1]), RSq(temp_counts[2])))
                      = RMul(RSq(Last(counts')),
                             RAdd(RMul(temp_errors[1], RSq(temp_counts[2])),
                                  RMul(temp_errors[2], RSq(temp_counts[1]))))
                   /\ Len(dqdb') = Len(dqdb) + 1]_vars

C12_Witness ==
    /\ pipeline = "occ"
    /\ options.type = "ratio"
    /\ pc = "loop"
    /\ Len(dqdb) = 2
    /\ dqdb[1].run < dqdb[2].run
    /\ dqdb[2].run = run
    /\ dqdb[2].value = counts[2]
    /\ dqdb[2].error = errors[2]
    /\ counts[2][1] # 0
    /\ errors[2][1] # 0

\* the multiples of step up to the largest run number modelled
Multiples(step) == {step * k : k \in 0..(265911 \div step)}

\* C13: for every run number r the path computed at the head of the loop
\* is <base>/<provider>/<A>/<B>/<provider>-run<r>.root, where A is the
\* multiple of 10000 with A <= r < A + 10000 and B the multiple of 1000 with
\* B <= r < B + 1000, both written in decimal; both scripts compute the same
\* shard "<A>/<B>/"; run 265911 gives "260000/265000/" and run 9999 gives
\* "0/9000/".
C13_ShardDirectory ==
    pc = "fetch" =>
      /\ \E A \in Multiples(10000), B \in Multiples(1000) :
           /\ A <= run /\ run < A + 10000
           /\ B <= run /\ run < B + 1000
           /\ run_dir_from_run_no(run) = ToString(A) \o "/" \o ToString(B) \o "/"
           /\ run_dir_from_run_no_multi(run) = run_dir_from_run_no(run)
           /\ run_filename =
                "/hist/Savesets/ByRun/" \o provider \o "/"
                  \o ToString(A) \o "/" \o ToString(B) \o "/"
                  \o provider \o "-run" \o ToString(run) \o ".root"
      /\ run = 265911 /\ provider = "RecoMon" =>
           run_filename =
             "/hist/Savesets/ByRun/RecoMon/260000/265000/RecoMon-run265911.root"
      /\ run = 9999 /\ provider = "BrunelMon" =>
           run_filename =
             "/hist/Savesets/ByRun/BrunelMon/0/9000/BrunelMon-run9999.root"

C13_Witness ==
    /\ pc = "fetch"
    /\ pipeline = "eff"
    /\ run = 9999
    /\ run_filename = "/hist/Savesets/ByRun/RecoMon/0/9000/RecoMon-run9999.root"

\* the rendered plot has its axis range from the policy, not from a y_range
HeuristicApplied == pc = "done" /\ pipeline = "occ" /\ "y_range" \notin DOMAIN options
\* the least and the greatest of the bin contents
Least(contents) ==
    CHOOSE x \in Range(contents) : \A y \in Range(contents) : ~RLess(y, x)
Greatest(contents) ==
    CHOOSE x \in Range(contents) : \A y \in Range(contents) : ~RLess(x, y)
SeriesOf(ints) == [i \in DOMAIN ints |-> RInt(ints[i])]

\* C14 as stated: with no y_range configured, when the mean bin content is
\* less than 1/5 of the observed maximum the working maximum is the observed
\* maximum: the range is [0, 1.5 maximum] for a positive observed minimum,
\* else [1.5 minimum, 1.5 maximum], or [1.5 minimum, 0.5 maximum] when the
\* maximum is not positive.
C14_MaximumWhenMeanBelowFifth ==
    HeuristicApplied =>
      LET minimum == Least(PlotContents)
          maximum == Greatest(PlotContents)
          total == RSum(PlotContents)
          n == RInt(Len(PlotContents))
      IN  RLess(RMul(RInt(5), total), RMul(n, maximum)) =>
            IF RLess(RZero, minimum)
            THEN y_axis = <<RZero, RMul(<<3, 2>>, maximum)>>
            ELSE IF RLess(RZero, maximum)
            THEN y_axis = <<RMul(<<3, 2>>, minimum), RMul(<<3, 2>>, maximum)>>
            ELSE y_axis = <<RMul(<<3, 2>>, minimum), RMul(<<1, 2>>, maximum)>>

\* C14 as amended: with no y_range configured the working maximum is the
\* observed maximum when 5 x mean > maximum and the mean bin content
\* otherwise (so when the mean is at most 1/5 of the maximum); the range is
\* [0, 1.5 working maximum] for a positive observed minimum; for any other
\* minimum it is [1.5 minimum, 1.5 observed maximum] when the observed
\* maximum is positive and [1.5 minimum, 0.5 observed maximum] when not.
C14_MeanWhenMaximumIsOutlier ==
    HeuristicApplied =>
      LET minimum == Least(PlotContents)
          maximum == Greatest(PlotContents)
          total == RSum(PlotContents)
          n == RInt(Len(PlotContents))
      IN  /\ Len(y_axis) = 2
          /\ IF RLess(RZero, minimum)
             THEN /\ y_axis[1] = RZero
                  /\ IF RLess(RMul(n, maximum), RMul(RInt(5), total))
                     THEN RMul(RInt(2), y_axis[2]) = RMul(RInt(3), maximum)
                     ELSE RMul(RMul(RInt(2), n), y_axis[2])
                            = RMul(RInt(3), total)
             ELSE /\ RMul(RInt(2), y_axis[1]) = RMul(RInt(3), minimum)
                  /\ IF RLess(RZero, maximum)
                     THEN RMul(RInt(2), y_axis[2]) = RMul(RInt(3), maximum)
                     ELSE RMul(RInt(2), y_axis[2]) = maximum

C14_Witness ==
    /\ HeuristicApplied
    /\ counts = SeriesOf(<<1, 1, 1, 1, 1, 100>>)
    /\ y_axis = <<(<<0, 1>>), (<<105, 4>>)>>

\* C15: with no y_range configured and a positive observed minimum, the
\* range is [0, 1.5 maximum] whenever 5 x mean > maximum, and is not when
\* 5 x mean = maximum (the range is then [0, 1.5 mean]); the series
\* [1,1,1,1,10] gives [0, 15] and [1,1,1,1,100] gives [0, 150]; with a
\* y_range configured the range is exactly the configured pair.
C15_StrictThresholdAndExplicitRange ==
    pc = "done" /\ pipeline = "occ" =>
      IF "y_range" \in DOMAIN options
      THEN /\ y_axis = <<options["y_range"][1], options["y_range"][2]>>
           /\ y_axis = <<(<<0 - 5, 1>>), (<<50, 1>>)>>
      ELSE LET minimum == Least(PlotContents)
               maximum == Greatest(PlotContents)
               total == RSum(PlotContents)
               n == RInt(Len(PlotContents))
           IN  /\ RLess(RZero, minimum) =>
                    /\ RLess(RMul(n, maximum), RMul(RInt(5), total)) =>
                         y_axis = <<RZero, RMul(<<3, 2>>, maximum)>>
                    /\ RMul(n, maximum) = RMul(RInt(5), total) =>
                         y_axis = <<RZero, RMul(<<3, 10>>, maximum)>>
               /\ counts = SeriesOf(<<1, 1, 1, 1, 10>>) =>
                    y_axis = <<(<<0, 1>>), (<<15, 1>>)>>
               /\ counts = SeriesOf(<<1, 1, 1, 1, 100>>) =>
                    y_axis = <<(<<0, 1>>), (<<150, 1>>)>>

C15_Witness ==
    /\ HeuristicApplied
    /\ counts = SeriesOf(<<1, 1, 1, 1, 10>>)
    /\ y_axis = <<(<<0, 1>>), (<<15, 1>>)>>

\* the methods whose error is taken from the sample extracted before
CoupledMethods == SelectionMethods \cup BinMethods

\* C16: in the single-metric pipeline, for every admitted run and every
\* location whose method is negative, positive, quadrant1..4 or bin<N>, the
\* sample's error is the value of the sample extracted just before it in
\* the same run divided by sqrt(raw count of this location); the sample
\* list is empty when a run starts; and the method yields a sample at every
\* position of the location list: the extraction of such a location never
\* ends the process with an exception, whatever its position.
C16_ErrorFromPreviousSample ==
    pipeline = "occ" =>
      /\ pc = "fetch" => temp_counts = <<>> /\ temp_errors = <<>>
      /\ \A i \in DOMAIN temp_counts :
           i > 1 /\ options.method[i] \in CoupledMethods =>
             RMul(temp_errors[i], RMul(temp_counts[i], Last(runs_info.length)))
               = RSq(temp_counts[i - 1])
      /\ pc = "combine" => Len(temp_counts) = Len(options.method)
      /\ ~(/\ pc = "crashed"
            /\ error \in {"IndexError", "ZeroDivisionError"}
            /\ loc \in DOMAIN options.method
            /\ options.method[loc] \in CoupledMethods)
====
